---- MODULE Spec2Model ----
(***************************************************************************)
(* Advisory identifiers (rustsec/src/advisory/id.rs).                      *)
(*                                                                         *)
(* A string is a sequence of one-character strings, so that prefix tests,  *)
(* splitting on '-' and integer parsing are computed character by          *)
(* character, as the code does.  A u32 is the pair [hi, lo] standing for   *)
(* hi * Base + lo, which keeps the full 32-bit width (the value 2^32 - 1   *)
(* is 42949 * 100000 + 67295) within the integers the model checker has.   *)
(***************************************************************************)
EXTENDS Integers, Sequences, FiniteSets, TLC

VARIABLES input, pc, res, num, link, wire, back

vars == <<input, pc, res, num, link, wire, back>>

(***************************************************************************)
(* Characters and u32                                                      *)
(***************************************************************************)
DigitChars == {"0", "1", "2", "3", "4", "5", "6", "7", "8", "9"}

DigitVal(c) ==
    CASE c = "0" -> 0 [] c = "1" -> 1 [] c = "2" -> 2 [] c = "3" -> 3
      [] c = "4" -> 4 [] c = "5" -> 5 [] c = "6" -> 6 [] c = "7" -> 7
      [] c = "8" -> 8 [] c = "9" -> 9

Base == 100000
U32MaxHi == 42949
U32MaxLo == 67295

U32(n) == [hi |-> n \div Base, lo |-> n % Base]

FitsU32(v) == v.hi < U32MaxHi \/ (v.hi = U32MaxHi /\ v.lo <= U32MaxLo)

\* v * 10 + d, before the overflow check
MulAdd(v, d) ==
    LET t == v.lo * 10 + d
    IN  [hi |-> v.hi * 10 + t \div Base, lo |-> t % Base]

None == [some |-> FALSE]
Some(v) == [some |-> TRUE, val |-> v]

\* checked accumulation of the digits of s onto acc: None on a character that
\* is no digit and on overflow of the u32
RECURSIVE AccumDigits(_, _)
AccumDigits(s, acc) ==
    IF s = <<>> THEN Some(acc)
    ELSE IF Head(s) \notin DigitChars THEN None
    ELSE LET v == MulAdd(acc, DigitVal(Head(s)))
         IN  IF FitsU32(v) THEN AccumDigits(Tail(s), v) ELSE None

\* str::parse::<u32>: an optional leading '+', then at least one digit, and a
\* value of at most 2^32 - 1
ParseU32(s) ==
    IF s = <<>> THEN None
    ELSE IF Head(s) = "+"
         THEN IF Tail(s) = <<>> THEN None ELSE AccumDigits(Tail(s), U32(0))
         ELSE AccumDigits(s, U32(0))

(***************************************************************************)
(* Strings                                                                 *)
(***************************************************************************)
starts_with(s, p) == Len(s) >= Len(p) /\ SubSeq(s, 1, Len(p)) = p

\* str::split('-'): the segments between the '-' characters; a string with no
\* '-' (the empty string too) is one segment
RECURSIVE SplitFrom(_, _)
SplitFrom(s, cur) ==
    IF s = <<>> THEN <<cur>>
    ELSE IF Head(s) = "-" THEN <<cur>> \o SplitFrom(Tail(s), <<>>)
    ELSE SplitFrom(Tail(s), Append(cur, Head(s)))

Split(s) == SplitFrom(s, <<>>)

RECURSIVE Join(_)
Join(segs) ==
    IF Len(segs) = 1 THEN segs[1]
    ELSE segs[1] \o <<"-">> \o Join(Tail(segs))

PLACEHOLDER ==
    <<"R", "U", "S", "T", "S", "E", "C", "-", "0", "0", "0", "0", "-",
      "0", "0", "0", "0">>

RUSTSEC_PREFIX == <<"R", "U", "S", "T", "S", "E", "C", "-">>
CVE_PREFIX == <<"C", "V", "E", "-">>
TALOS_PREFIX == <<"T", "A", "L", "O", "S", "-">>
GHSA_PREFIX == <<"G", "H", "S", "A", "-">>

(***************************************************************************)
(* Kind                                                                    *)
(***************************************************************************)
Kinds == {"RustSec", "Cve", "Ghsa", "Talos", "Other"}

\* the prefixes compared without their '-'
detect_no_dash(string) ==
    IF starts_with(string, SubSeq(RUSTSEC_PREFIX, 1, Len(RUSTSEC_PREFIX) - 1))
    THEN "RustSec"
    ELSE IF starts_with(string, SubSeq(CVE_PREFIX, 1, Len(CVE_PREFIX) - 1))
    THEN "Cve"
    ELSE IF starts_with(string, SubSeq(TALOS_PREFIX, 1, Len(TALOS_PREFIX) - 1))
    THEN "Talos"
    ELSE IF starts_with(string, SubSeq(GHSA_PREFIX, 1, Len(GHSA_PREFIX) - 1))
    THEN "Ghsa"
    ELSE "Other"

detect(string) ==
    IF starts_with(string, RUSTSEC_PREFIX) THEN "RustSec"
    ELSE IF starts_with(string, CVE_PREFIX) THEN "Cve"
    ELSE IF starts_with(string, TALOS_PREFIX) THEN "Talos"
    ELSE IF starts_with(string, GHSA_PREFIX) THEN "Ghsa"
    ELSE "Other"

(***************************************************************************)
(* parse_year                                                              *)
(***************************************************************************)
YEAR_MIN == 2000
YEAR_MAX == 2100

Ok(v) == [ok |-> TRUE, panic |-> FALSE, val |-> v]
Err(msg, arg) ==
    [ok |-> FALSE, panic |-> FALSE,
     err |-> [kind |-> "Parse", msg |-> msg, arg |-> arg]]

\* Option::unwrap on None aborts the call: neither an identifier nor an error
Panic == [ok |-> FALSE, panic |-> TRUE]

\* YEAR_MIN taken as an exclusive bound
InYearRange_exclusive_min(n) == n.hi = 0 /\ n.lo > YEAR_MIN /\ n.lo <= YEAR_MAX

\* the upper bound off by one
InYearRange_past_max(n) == n.hi = 0 /\ n.lo >= YEAR_MIN /\ n.lo <= YEAR_MAX + 1

InYearRange(n) == n.hi = 0 /\ n.lo >= YEAR_MIN /\ n.lo <= YEAR_MAX

\* the third segment looked for before the year is range-checked
parse_year_suffix_first(advisory_id) ==
    LET parts == Split(advisory_id)
    IN  IF Len(parts) < 2 THEN Panic
        ELSE LET y == ParseU32(parts[2])
             IN  IF ~y.some
                 THEN Err("malformed year in advisory ID: ", advisory_id)
                 ELSE IF Len(parts) < 3
                 THEN Err("incomplete advisory ID: ", advisory_id)
                 ELSE IF ~InYearRange(y.val)
                 THEN Err("out-of-range year in advisory ID: ", advisory_id)
                 ELSE IF ~ParseU32(parts[3]).some
                 THEN Err("malformed advisory ID: ", advisory_id)
                 ELSE IF Len(parts) > 3
                 THEN Err("malformed advisory ID: ", advisory_id)
                 ELSE Ok(y.val)

parse_year(advisory_id) ==
    LET parts == Split(advisory_id)
    IN  IF Len(parts) < 2 THEN Panic
        ELSE LET y == ParseU32(parts[2])
             IN  IF ~y.some
                 THEN Err("malformed year in advisory ID: ", advisory_id)
                 ELSE IF ~InYearRange(y.val)
                 THEN Err("out-of-range year in advisory ID: ", advisory_id)
                 ELSE IF Len(parts) < 3
                 THEN Err("incomplete advisory ID: ", advisory_id)
                 ELSE IF ~ParseU32(parts[3]).some
                 THEN Err("malformed advisory ID: ", advisory_id)
                 ELSE IF Len(parts) > 3
                 THEN Err("malformed advisory ID: ", advisory_id)
                 ELSE Ok(y.val)

(***************************************************************************)
(* Id                                                                      *)
(***************************************************************************)
Id(kind, year, string) == [kind |-> kind, year |-> year, string |-> string]

default == Id("RustSec", None, PLACEHOLDER)

\* the placeholder recognised by its "RUSTSEC-0000-" prefix
from_str_placeholder_prefix(advisory_id) ==
    IF starts_with(advisory_id, SubSeq(PLACEHOLDER, 1, Len(PLACEHOLDER) - 4))
    THEN Ok(default)
    ELSE LET kind == detect(advisory_id)
         IN  IF kind \in {"RustSec", "Cve", "Talos"}
             THEN LET y == parse_year(advisory_id)
                  IN  IF y.ok THEN Ok(Id(kind, Some(y.val), advisory_id))
                      ELSE y
             ELSE Ok(Id(kind, None, advisory_id))

\* every known kind validated, Ghsa too
from_str_validate_known(advisory_id) ==
    IF advisory_id = PLACEHOLDER THEN Ok(default)
    ELSE LET kind == detect(advisory_id)
         IN  IF kind # "Other"
             THEN LET y == parse_year(advisory_id)
                  IN  IF y.ok THEN Ok(Id(kind, Some(y.val), advisory_id))
                      ELSE y
             ELSE Ok(Id(kind, None, advisory_id))

from_str(advisory_id) ==
    IF advisory_id = PLACEHOLDER THEN Ok(default)
    ELSE LET kind == detect(advisory_id)
         IN  IF kind \in {"RustSec", "Cve", "Talos"}
             THEN LET y == parse_year(advisory_id)
                  IN  IF y.ok THEN Ok(Id(kind, Some(y.val), advisory_id))
                      ELSE y
             ELSE Ok(Id(kind, None, advisory_id))

as_str(id) == id.string

is_placeholder(id) == id.string = PLACEHOLDER

Last(seq) == seq[Len(seq)]

\* the placeholder not set apart
numerical_part_no_placeholder(id) == ParseU32(Last(Split(id.string)))

\* the segment after the prefix read instead of the last one
numerical_part_second(id) ==
    IF is_placeholder(id) THEN None
    ELSE LET parts == Split(id.string)
         IN  ParseU32(IF Len(parts) >= 2 THEN parts[2] ELSE parts[1])

numerical_part(id) ==
    IF is_placeholder(id) THEN None
    ELSE ParseU32(Last(Split(id.string)))

RUSTSEC_URL ==
    <<"h", "t", "t", "p", "s", ":", "/", "/", "r", "u", "s", "t", "s", "e",
      "c", ".", "o", "r", "g", "/", "a", "d", "v", "i", "s", "o", "r", "i",
      "e", "s", "/">>
CVE_URL ==
    <<"h", "t", "t", "p", "s", ":", "/", "/", "c", "v", "e", ".", "m", "i",
      "t", "r", "e", ".", "o", "r", "g", "/", "c", "g", "i", "-", "b", "i",
      "n", "/", "c", "v", "e", "n", "a", "m", "e", ".", "c", "g", "i", "?",
      "n", "a", "m", "e", "=">>
GHSA_URL ==
    <<"h", "t", "t", "p", "s", ":", "/", "/", "g", "i", "t", "h", "u", "b",
      ".", "c", "o", "m", "/", "a", "d", "v", "i", "s", "o", "r", "i", "e",
      "s", "/">>
TALOS_URL ==
    <<"h", "t", "t", "p", "s", ":", "/", "/", "w", "w", "w", ".", "t", "a",
      "l", "o", "s", "i", "n", "t", "e", "l", "l", "i", "g", "e", "n", "c",
      "e", ".", "c", "o", "m", "/", "r", "e", "p", "o", "r", "t", "s", "/">>

\* the placeholder given a URL like any RustSec identifier
url_no_placeholder(id) ==
    CASE id.kind = "RustSec" -> Some(RUSTSEC_URL \o id.string)
      [] id.kind = "Cve" -> Some(CVE_URL \o id.string)
      [] id.kind = "Ghsa" -> Some(GHSA_URL \o id.string)
      [] id.kind = "Talos" -> Some(TALOS_URL \o id.string)
      [] OTHER -> None

url(id) ==
    CASE id.kind = "RustSec" ->
            IF is_placeholder(id) THEN None ELSE Some(RUSTSEC_URL \o id.string)
      [] id.kind = "Cve" -> Some(CVE_URL \o id.string)
      [] id.kind = "Ghsa" -> Some(GHSA_URL \o id.string)
      [] id.kind = "Talos" -> Some(TALOS_URL \o id.string)
      [] OTHER -> None

serialize(id) == id.string

Custom(e) == [kind |-> "custom", msg |-> e.msg, arg |-> e.arg]

\* the text validated without the placeholder's exception
deserialize_no_placeholder(text) ==
    LET r == IF text = PLACEHOLDER THEN parse_year(text) ELSE from_str(text)
    IN  IF r.ok \/ r.panic THEN r
        ELSE [ok |-> FALSE, panic |-> FALSE, err |-> Custom(r.err)]

deserialize(text) ==
    LET r == from_str(text)
    IN  IF r.ok \/ r.panic THEN r
        ELSE [ok |-> FALSE, panic |-> FALSE, err |-> Custom(r.err)]

(***************************************************************************)
(* Inputs: the identifiers of the tests, and every string made of a first  *)
(* segment, up to two further segments and up to MaxExtra segments beyond  *)
(* the third, joined by '-'.                                               *)
(***************************************************************************)
EXAMPLE_RUSTSEC_ID == <<"R", "U", "S", "T", "S", "E", "C", "-", "2", "0", "1", "8", "-", "0", "0", "0", "1">>
EXAMPLE_CVE_ID == <<"C", "V", "E", "-", "2", "0", "1", "7", "-", "1", "0", "0", "0", "1", "6", "8">>
EXAMPLE_GHSA_ID ==
    <<"G", "H", "S", "A", "-", "4", "m", "m", "c", "-", "4", "9", "v", "f", "-", "j", "m", "c", "p">>
EXAMPLE_TALOS_ID == <<"T", "A", "L", "O", "S", "-", "2", "0", "1", "7", "-", "0", "4", "6", "8">>
EXAMPLE_UNKNOWN_ID == <<"A", "n", "o", "n", "y", "m", "o", "u", "s", "-", "4", "2">>

Examples ==
    {PLACEHOLDER, EXAMPLE_RUSTSEC_ID, EXAMPLE_CVE_ID, EXAMPLE_GHSA_ID,
     EXAMPLE_TALOS_ID, EXAMPLE_UNKNOWN_ID}

MaxExtra == 1

Heads ==
    {<<"R", "U", "S", "T", "S", "E", "C">>,
     <<"C", "V", "E">>,
     <<"T", "A", "L", "O", "S">>,
     <<"G", "H", "S", "A">>,
     <<"r", "u", "s", "t", "s", "e", "c">>,
     <<"A", "n", "o", "n", "y", "m", "o", "u", "s">>,
     <<>>,
     <<"4", "2">>,
     <<"C", "V", "E", "X">>}

Tails ==
    {<<"0", "0", "0", "0">>,
     <<"0", "0", "0", "1">>,
     <<"1">>,
     <<"1", "8">>,
     <<"1", "9", "9", "9">>,
     <<"2", "0", "0", "0">>,
     <<"2", "0", "1", "7">>,
     <<"2", "0", "1", "8">>,
     <<"2", "1", "0", "0">>,
     <<"2", "1", "0", "1">>,
     <<"a", "b", "c">>,
     <<>>,
     <<"+", "2", "0", "0", "0">>,
     <<"4", "2", "9", "4", "9", "6", "7", "2", "9", "5">>,
     <<"4", "2", "9", "4", "9", "6", "7", "2", "9", "6">>}

Extras == {<<>>, <<"2">>, <<"a", "b", "c">>}

SegLists ==
    {<<h>> : h \in Heads}
    \cup {<<h, a>> : h \in Heads, a \in Tails}
    \cup {<<h, a, b>> \o e : h \in Heads, a \in Tails, b \in Tails,
                             e \in UNION {[1..n -> Extras] : n \in 0..MaxExtra}}

Inputs == Examples \cup {Join(segs) : segs \in SegLists}

(***************************************************************************)
(* The state machine: a caller holding the string `input` constructs an    *)
(* identifier from it (or the default one), reads its projections, and     *)
(* writes it out and reads it back.                                        *)
(***************************************************************************)
Unset == [set |-> FALSE]

Init ==
    /\ input \in Inputs
    /\ pc = "start"
    /\ res = Unset
    /\ num = Unset
    /\ link = Unset
    /\ wire = Unset
    /\ back = Unset

\* advisory_id.parse::<Id>()
FromStr ==
    /\ pc = "start"
    /\ res' = from_str(input)
    /\ pc' = "parsed"
    /\ UNCHANGED <<input, num, link, wire, back>>

\* Id::default()
Default ==
    /\ pc = "start"
    /\ res' = Ok(default)
    /\ pc' = "defaulted"
    /\ UNCHANGED <<input, num, link, wire, back>>

Constructed == pc \in {"parsed", "defaulted"} /\ res.ok

\* id.numerical_part()
NumericalPart ==
    /\ Constructed
    /\ num' = numerical_part(res.val)
    /\ pc' = "num"
    /\ UNCHANGED <<input, res, link, wire, back>>

\* id.url()
Url ==
    /\ Constructed
    /\ link' = url(res.val)
    /\ pc' = "url"
    /\ UNCHANGED <<input, res, num, wire, back>>

\* Serialize for Id
Serialize ==
    /\ Constructed
    /\ wire' = serialize(res.val)
    /\ pc' = "serialized"
    /\ UNCHANGED <<input, res, num, link, back>>

\* Deserialize for Id, of the text just written or of the text `input`
Deserialize ==
    /\ \/ pc = "serialized" /\ UNCHANGED wire
       \/ pc = "start" /\ wire' = input
    /\ back' = deserialize(wire')
    /\ pc' = "deserialized"
    /\ UNCHANGED <<input, res, num, link>>

Next ==
    \/ FromStr
    \/ Default
    \/ NumericalPart
    \/ Url
    \/ Serialize
    \/ Deserialize

Spec == Init /\ [][Next]_vars

(***************************************************************************)
(* Vocabulary of the properties, defined apart from the operators above    *)
(***************************************************************************)
YearKinds == {"RustSec", "Cve", "Talos"}

NSegs(s) == Len(Split(s))
Seg(s, i) == Split(s)[i]

\* the text after the final '-' (the whole text when it holds no '-')
RECURSIVE AfterLastDash(_)
AfterLastDash(s) ==
    IF s = <<>> \/ s[Len(s)] = "-" THEN <<>>
    ELSE Append(AfterLastDash(SubSeq(s, 1, Len(s) - 1)), s[Len(s)])

\* a decimal integer: an optional '+' and at least one digit, of any length
Unsigned(s) == IF s # <<>> /\ Head(s) = "+" THEN Tail(s) ELSE s

IntegerShaped(s) ==
    /\ Unsigned(s) # <<>>
    /\ \A i \in 1..Len(Unsigned(s)) : Unsigned(s)[i] \in DigitChars

\* its value, of any size, as hi * Base + lo
RECURSIVE DecimalFrom(_, _)
DecimalFrom(s, acc) ==
    IF s = <<>> THEN acc
    ELSE DecimalFrom(Tail(s), MulAdd(acc, DigitVal(Head(s))))

IntegerValue(s) == DecimalFrom(Unsigned(s), [hi |-> 0, lo |-> 0])

WithinYears(v) == v.hi = 0 /\ v.lo \in YEAR_MIN..YEAR_MAX

WithinU32(v) == v.hi < U32MaxHi \/ (v.hi = U32MaxHi /\ v.lo <= U32MaxLo)

\* a decimal integer of at most 2^32 - 1
U32Shaped(s) == IntegerShaped(s) /\ WithinU32(IntegerValue(s))

MalformedYear == "malformed year in advisory ID: "
YearOutOfRange == "out-of-range year in advisory ID: "
IncompleteIdentifier == "incomplete advisory ID: "
MalformedIdentifier == "malformed advisory ID: "

HasPrefix(s, p) == Len(s) >= Len(p) /\ \A i \in 1..Len(p) : s[i] = p[i]

KindOfPrefix(s) ==
    IF HasPrefix(s, <<"R", "U", "S", "T", "S", "E", "C", "-">>) THEN "RustSec"
    ELSE IF HasPrefix(s, <<"C", "V", "E", "-">>) THEN "Cve"
    ELSE IF HasPrefix(s, <<"T", "A", "L", "O", "S", "-">>) THEN "Talos"
    ELSE IF HasPrefix(s, <<"G", "H", "S", "A", "-">>) THEN "Ghsa"
    ELSE "Other"

ExpectedUrlPrefix(kind) ==
    CASE kind = "RustSec" ->
            <<"h", "t", "t", "p", "s", ":", "/", "/", "r", "u", "s", "t", "s", "e",
              "c", ".", "o", "r", "g", "/", "a", "d", "v", "i", "s", "o", "r", "i",
              "e", "s", "/">>
      [] kind = "Cve" ->
            <<"h", "t", "t", "p", "s", ":", "/", "/", "c", "v", "e", ".", "m", "i",
              "t", "r", "e", ".", "o", "r", "g", "/", "c", "g", "i", "-", "b", "i",
              "n", "/", "c", "v", "e", "n", "a", "m", "e", ".", "c", "g", "i", "?",
              "n", "a", "m", "e", "=">>
      [] kind = "Ghsa" ->
            <<"h", "t", "t", "p", "s", ":", "/", "/", "g", "i", "t", "h", "u", "b",
              ".", "c", "o", "m", "/", "a", "d", "v", "i", "s", "o", "r", "i", "e",
              "s", "/">>
      [] kind = "Talos" ->
            <<"h", "t", "t", "p", "s", ":", "/", "/", "w", "w", "w", ".", "t", "a",
              "l", "o", "s", "i", "n", "t", "e", "l", "l", "i", "g", "e", "n", "c",
              "e", ".", "c", "o", "m", "/", "r", "e", "p", "o", "r", "t", "s", "/">>

\* a parse of a string other than the placeholder, of a year-bearing kind
YearBearing ==
    pc = "parsed" /\ input # PLACEHOLDER /\ detect(input) \in YearKinds

\* an identifier has been constructed and is held in res
HasId == pc \in {"parsed", "defaulted", "num", "url", "serialized"} /\ res.ok

(***************************************************************************)
(* C1: a non-placeholder string of kind RustSec, Cve or Talos parses iff   *)
(* it has exactly three segments, the second an integer within             *)
(* [YEAR_MIN, YEAR_MAX] and the third an integer; the year is then the     *)
(* value of the second segment.                                            *)
(***************************************************************************)
\* C1 as stated: the third segment any integer
C1_AsStated ==
    YearBearing =>
        /\ res.ok <=> /\ NSegs(input) = 3
                      /\ IntegerShaped(Seg(input, 2))
                      /\ WithinYears(IntegerValue(Seg(input, 2)))
                      /\ IntegerShaped(Seg(input, 3))
        /\ res.ok => res.val.year = Some(IntegerValue(Seg(input, 2)))

\* C1 amended: a non-placeholder string of kind RustSec, Cve or Talos parses
\* iff it has exactly three segments, the second an integer within
\* [YEAR_MIN, YEAR_MAX] and the third an integer of at most 2^32 - 1; the year
\* is then the value of the second segment; a year at YEAR_MIN or YEAR_MAX is
\* accepted, one below YEAR_MIN or above YEAR_MAX is rejected as out of range
C1_ParseIffWellFormed ==
    YearBearing =>
        /\ res.ok <=> /\ NSegs(input) = 3
                      /\ IntegerShaped(Seg(input, 2))
                      /\ WithinYears(IntegerValue(Seg(input, 2)))
                      /\ U32Shaped(Seg(input, 3))
        /\ res.ok => res.val.year = Some(IntegerValue(Seg(input, 2)))
        /\ /\ NSegs(input) = 3
           /\ U32Shaped(Seg(input, 3))
           /\ IntegerShaped(Seg(input, 2))
           /\ IntegerValue(Seg(input, 2)).hi = 0
           => LET y == IntegerValue(Seg(input, 2)).lo
              IN  /\ y \in {YEAR_MIN, YEAR_MAX} => res.ok
                  /\ y \in {YEAR_MIN - 1, YEAR_MAX + 1} =>
                        ~res.ok /\ res.err.msg = YearOutOfRange

\* a Cve identifier of the year YEAR_MAX has been parsed
C1_Witness ==
    /\ YearBearing
    /\ detect(input) = "Cve"
    /\ res.ok
    /\ res.val.year = Some([hi |-> 0, lo |-> YEAR_MAX])

(***************************************************************************)
(* C2: a rejected non-placeholder string of kind RustSec, Cve or Talos     *)
(* gets the error of the first failing check: malformed year, year out of  *)
(* range, incomplete identifier, malformed identifier; no error carries an *)
(* identifier.                                                             *)
(***************************************************************************)
CVE_2017 == <<"C", "V", "E", "-", "2", "0", "1", "7">>
CVE_2017_abc == <<"C", "V", "E", "-", "2", "0", "1", "7", "-", "a", "b", "c">>
CVE_2017_1_2 == <<"C", "V", "E", "-", "2", "0", "1", "7", "-", "1", "-", "2">>
RUSTSEC_18_0001 == <<"R", "U", "S", "T", "S", "E", "C", "-", "1", "8", "-", "0", "0", "0", "1">>

C2_Examples ==
    pc = "parsed" =>
        /\ input = RUSTSEC_18_0001 => ~res.ok
        /\ input = CVE_2017 => ~res.ok /\ res.err.msg = IncompleteIdentifier
        /\ input = CVE_2017_abc => ~res.ok /\ res.err.msg = MalformedIdentifier
        /\ input = CVE_2017_1_2 => ~res.ok /\ res.err.msg = MalformedIdentifier

\* C2 as stated: any integer-shaped second segment outside the range is a year
\* out of range
C2_AsStated ==
    /\ YearBearing /\ ~res.ok =>
        /\ ~res.panic
        /\ "val" \notin DOMAIN res
        /\ res.err.msg =
              IF ~IntegerShaped(Seg(input, 2)) THEN MalformedYear
              ELSE IF ~WithinYears(IntegerValue(Seg(input, 2)))
              THEN YearOutOfRange
              ELSE IF NSegs(input) < 3 THEN IncompleteIdentifier
              ELSE MalformedIdentifier
    /\ C2_Examples

\* C2 amended: the error is MalformedYear if the second segment is not an
\* integer of at most 2^32 - 1 (not integer-shaped, or too large for 32 bits);
\* otherwise YearOutOfRange if it lies outside [YEAR_MIN, YEAR_MAX]; otherwise
\* IncompleteIdentifier if there is no third segment; otherwise
\* MalformedIdentifier, the third segment being no integer of at most 2^32 - 1
\* or a fourth segment existing; the four examples fail as stated and no error
\* carries an identifier
C2_FirstFailingCheck ==
    /\ YearBearing /\ ~res.ok =>
        /\ ~res.panic
        /\ "val" \notin DOMAIN res
        /\ res.err.arg = input
        /\ res.err.msg =
              IF ~U32Shaped(Seg(input, 2)) THEN MalformedYear
              ELSE IF ~WithinYears(IntegerValue(Seg(input, 2)))
              THEN YearOutOfRange
              ELSE IF NSegs(input) < 3 THEN IncompleteIdentifier
              ELSE MalformedIdentifier
        /\ res.err.msg = MalformedIdentifier =>
              ~U32Shaped(Seg(input, 3)) \/ NSegs(input) > 3
    /\ C2_Examples

\* a string with a good year and well-formed third segment has been rejected
\* for its fourth segment
C2_Witness ==
    /\ YearBearing
    /\ input = CVE_2017_1_2
    /\ ~res.ok
    /\ res.err.msg = MalformedIdentifier

(***************************************************************************)
(* C3: the placeholder always parses, to the value of the default          *)
(* constructor, with no url and no numerical part; any other string with   *)
(* the "RUSTSEC-" prefix is validated in full.                             *)
(***************************************************************************)
RUSTSEC_0000_0001 == <<"R", "U", "S", "T", "S", "E", "C", "-", "0", "0", "0", "0", "-", "0", "0", "0", "1">>

PlaceholderId == [kind |-> "RustSec", year |-> None, string |-> PLACEHOLDER]

\* C3: parsing the placeholder gives the default identifier (kind RustSec, no
\* year, no url, no numerical part); any other "RUSTSEC-" string parses only
\* with a year in range and a well-formed third segment, and
\* "RUSTSEC-0000-0001" is rejected
C3_Placeholder ==
    /\ pc = "parsed" /\ input = PLACEHOLDER =>
          res.ok /\ res.val = PlaceholderId /\ is_placeholder(res.val)
    /\ pc = "defaulted" => res.ok /\ res.val = PlaceholderId
    /\ pc = "num" /\ res.val.string = PLACEHOLDER => num = None
    /\ pc = "url" /\ res.val.string = PLACEHOLDER => link = None
    /\ pc = "parsed" /\ input # PLACEHOLDER /\ KindOfPrefix(input) = "RustSec" =>
          /\ res.ok => /\ res.val.year.some
                       /\ WithinYears(res.val.year.val)
                       /\ NSegs(input) = 3
                       /\ U32Shaped(Seg(input, 3))
          /\ input = RUSTSEC_0000_0001 => ~res.ok

\* the placeholder has been parsed and asked for its url
C3_Witness ==
    /\ pc = "url"
    /\ input = PLACEHOLDER
    /\ res.val = PlaceholderId
    /\ link = None

(***************************************************************************)
(* C4: a string of kind Ghsa or Other (the empty string, a string with no  *)
(* known prefix, a lower-case "rustsec-2018-0001") never fails to parse:   *)
(* it gives that kind, no year and the input as raw text; kind Other has   *)
(* no url.                                                                 *)
(***************************************************************************)
rustsec_2018_0001 == <<"r", "u", "s", "t", "s", "e", "c", "-", "2", "0", "1", "8", "-", "0", "0", "0", "1">>

\* C4: a string of kind Ghsa or Other always parses, to that kind, no year and
\* the input as raw text; "", "rustsec-2018-0001" and "Anonymous-42" are of
\* kind Other; an identifier of kind Other has no url
C4_GhsaOtherNeverFail ==
    /\ pc = "parsed" /\ detect(input) \in {"Ghsa", "Other"} =>
          /\ res.ok
          /\ res.val = [kind |-> detect(input), year |-> None, string |-> input]
    /\ pc = "parsed" /\ input \in {<<>>, rustsec_2018_0001, EXAMPLE_UNKNOWN_ID} =>
          res.ok /\ res.val.kind = "Other"
    /\ pc = "url" /\ res.val.kind = "Other" => link = None

\* the lower-case string has been parsed as kind Other
C4_Witness ==
    /\ pc = "parsed"
    /\ input = rustsec_2018_0001
    /\ res.ok
    /\ res.val.kind = "Other"

(***************************************************************************)
(* C5: every string starting with "GHSA-" parses, with no year, no         *)
(* numerical part, and the url "https://github.com/advisories/" followed   *)
(* by the raw text.                                                        *)
(***************************************************************************)
C5_ParseAndUrl ==
    /\ pc = "parsed" /\ HasPrefix(input, GHSA_PREFIX) =>
          res.ok /\ res.val.kind = "Ghsa" /\ res.val.year = None
    /\ pc = "url" /\ HasPrefix(res.val.string, GHSA_PREFIX) =>
          link = Some(ExpectedUrlPrefix("Ghsa") \o res.val.string)

\* C5 as stated: no Ghsa identifier has a numerical part
C5_AsStated ==
    /\ C5_ParseAndUrl
    /\ pc = "num" /\ HasPrefix(res.val.string, GHSA_PREFIX) => num = None

\* C5 amended: every string starting with "GHSA-" parses, with no year and the
\* url "https://github.com/advisories/" followed by the raw text; its
\* numerical part is absent exactly when the text after the final '-' is no
\* integer of at most 2^32 - 1 (as in "GHSA-4mmc-49vf-jmcp") and is that
\* integer's value otherwise
C5_Ghsa ==
    /\ C5_ParseAndUrl
    /\ pc = "num" /\ HasPrefix(res.val.string, GHSA_PREFIX) =>
          /\ num = IF U32Shaped(AfterLastDash(res.val.string))
                   THEN Some(IntegerValue(AfterLastDash(res.val.string)))
                   ELSE None
          /\ res.val.string = EXAMPLE_GHSA_ID => num = None

\* the Ghsa identifier of the tests has been asked for its numerical part
C5_Witness ==
    /\ pc = "num"
    /\ res.val.string = EXAMPLE_GHSA_ID
    /\ res.val.kind = "Ghsa"
    /\ num = None

(***************************************************************************)
(* C6: every constructed identifier has the kind of its raw text's prefix, *)
(* a year exactly when the kind is RustSec, Cve or Talos and it is not the *)
(* placeholder, and a year within [YEAR_MIN, YEAR_MAX].                    *)
(***************************************************************************)
IdInvariant(id) ==
    /\ id.kind = KindOfPrefix(id.string)
    /\ id.year.some <=> (id.kind \in YearKinds /\ id.string # PLACEHOLDER)
    /\ id.year.some => WithinYears(id.year.val)

\* C6: every identifier constructed by parsing, by default or by reading back
\* satisfies IdInvariant
C6_IdInvariant ==
    /\ HasId => IdInvariant(res.val)
    /\ pc = "deserialized" /\ back.ok => IdInvariant(back.val)

\* a Talos identifier of the year YEAR_MIN has been constructed
C6_Witness ==
    /\ HasId
    /\ res.val.kind = "Talos"
    /\ res.val.year = Some([hi |-> 0, lo |-> YEAR_MIN])

(***************************************************************************)
(* C7: numerical_part is the value of the text after the final '-', and is *)
(* absent exactly for the placeholder and for a trailing segment that is   *)
(* not integer-shaped.                                                     *)
(***************************************************************************)
C7_Examples ==
    pc = "num" =>
        /\ res.val.string = EXAMPLE_RUSTSEC_ID => num = Some([hi |-> 0, lo |-> 1])
        /\ res.val.string = EXAMPLE_UNKNOWN_ID => num = Some([hi |-> 0, lo |-> 42])
        /\ res.val.string = EXAMPLE_GHSA_ID => num = None

\* C7 as stated: every integer-shaped trailing segment has a value
C7_AsStated ==
    /\ pc = "num" =>
          num = IF \/ res.val.string = PLACEHOLDER
                   \/ ~IntegerShaped(AfterLastDash(res.val.string))
                THEN None
                ELSE Some(IntegerValue(AfterLastDash(res.val.string)))
    /\ C7_Examples

\* C7 amended: numerical_part is absent exactly when the identifier is the
\* placeholder or the text after the final '-' is no integer of at most
\* 2^32 - 1 (not integer-shaped, or too large for 32 bits), and is that
\* integer's value otherwise
C7_NumericalPart ==
    /\ pc = "num" =>
          num = IF \/ res.val.string = PLACEHOLDER
                   \/ ~U32Shaped(AfterLastDash(res.val.string))
                THEN None
                ELSE Some(IntegerValue(AfterLastDash(res.val.string)))
    /\ C7_Examples

\* an identifier of kind Other has given the numerical part 42
C7_Witness ==
    /\ pc = "num"
    /\ res.val.string = EXAMPLE_UNKNOWN_ID
    /\ res.val.kind = "Other"
    /\ num = Some([hi |-> 0, lo |-> 42])

(***************************************************************************)
(* C8: url is present iff the kind is RustSec, Cve, Ghsa or Talos and the  *)
(* identifier is not the placeholder, and is then the kind's prefix        *)
(* followed by the raw text.                                               *)
(***************************************************************************)
\* C8: url is present iff the kind is known and the identifier is not the
\* placeholder, and is then the kind's prefix followed by the raw text
C8_Url ==
    pc = "url" =>
        /\ link.some <=> /\ res.val.kind \in {"RustSec", "Cve", "Ghsa", "Talos"}
                         /\ res.val.string # PLACEHOLDER
        /\ link.some =>
              link.val = ExpectedUrlPrefix(res.val.kind) \o res.val.string

\* the Talos identifier of the tests has given its url
C8_Witness ==
    /\ pc = "url"
    /\ res.val.string = EXAMPLE_TALOS_ID
    /\ link =
          Some(<<"h", "t", "t", "p", "s", ":", "/", "/", "w", "w", "w", ".", "t", "a",
              "l", "o", "s", "i", "n", "t", "e", "l", "l", "i", "g", "e", "n", "c",
              "e", ".", "c", "o", "m", "/", "r", "e", "p", "o", "r", "t", "s", "/",
              "T", "A", "L", "O", "S", "-", "2", "0", "1", "7", "-", "0", "4", "6",
              "8">>)

(***************************************************************************)
(* C9: a parsed identifier's raw text is the input unchanged; written out  *)
(* and read back it gives an identifier equal in kind, year and raw text;  *)
(* reading rejects exactly the strings parsing rejects.                    *)
(***************************************************************************)
\* C9: raw text is the input; the written text is the raw text; reading it
\* back succeeds with an equal identifier; reading any text succeeds exactly
\* when parsing it does, with the same identifier
C9_RoundTrip ==
    /\ pc = "parsed" /\ res.ok => as_str(res.val) = input
    /\ pc = "serialized" => wire = res.val.string
    /\ pc = "deserialized" /\ res # Unset => back.ok /\ back.val = res.val
    /\ pc = "deserialized" =>
          /\ back.ok <=> from_str(wire).ok
          /\ back.ok => back.val = from_str(wire).val

\* an identifier with a leading '+' in its year has been written and read back
C9_Witness ==
    /\ pc = "deserialized"
    /\ res # Unset
    /\ res.val.kind = "Cve"
    /\ Seg(res.val.string, 2) = <<"+", "2", "0", "0", "0">>
    /\ back.ok
    /\ back.val.string = input

(***************************************************************************)
(* C10: parsing never aborts: it gives an identifier or a parse error, and *)
(* parse_year is only reached with a second segment to unwrap.             *)
(***************************************************************************)
RUSTSEC_DASH == <<"R", "U", "S", "T", "S", "E", "C", "-">>

\* C10: no parse and no read aborts; a failed parse carries a parse error;
\* every string of a year-bearing kind has at least two segments
C10_Total ==
    /\ pc = "parsed" =>
          /\ ~res.panic
          /\ res.ok \/ res.err.kind = "Parse"
    /\ pc = "deserialized" => ~back.panic
    /\ pc = "parsed" /\ detect(input) \in YearKinds => NSegs(input) >= 2

\* the bare prefix "RUSTSEC-" has been parsed, and rejected with an error
C10_Witness ==
    /\ pc = "parsed"
    /\ input = RUSTSEC_DASH
    /\ ~res.ok
    /\ ~res.panic
    /\ res.err.msg = MalformedYear

====
